---- MODULE Spec2Model ----
(***************************************************************************)
(* Model of src/main.py: the single-file To-Do API.  The state is the      *)
(* module-level dictionary fake_todos_db; every route handler is a pure    *)
(* operator from (dictionary, request) to (status, body, dictionary), and  *)
(* one action per route applies it.  History variables record the last call  *)
(* and the dictionary before it, so that the contracts of the handlers can *)
(* be stated as state predicates.                                          *)
(***************************************************************************)
EXTENDS Integers, Sequences, FiniteSets, TLC

VARIABLES
    fake_todos_db,  \* main.py:31  the dictionary id -> stored value
    before,         \* history: fake_todos_db as it was before the last call
    ever,           \* history: every id that is or was a key of fake_todos_db
    everBefore,     \* history: ever as it was before the last call
    deleted,        \* history: ids deleted and not inserted again since
    last,           \* history: the last call (request and response)
    returned,       \* history: id -> record the last successful create or
                    \*          update of id returned, until id is deleted
    requested,      \* history: id -> record the last accepted create was
                    \*          asked to add, until id is updated or deleted
    pc,             \* concurrent creates: position of each worker thread
    req,            \* concurrent creates: the request each thread serves
    new_id,         \* concurrent creates: the local new_id of each thread
    resp            \* concurrent creates: the response of each thread

seqVars ==
    <<fake_todos_db, before, ever, everBefore, deleted, last, returned,
      requested>>
concVars == <<pc, req, new_id, resp>>
vars ==
    <<fake_todos_db, before, ever, everBefore, deleted, last, returned,
      requested, pc, req, new_id, resp>>

----------------------------------------------------------------------------
(* Bounds of the model and constants of the program.                       *)

\* todo_id arguments are drawn from 0..MaxTodoId
MaxTodoId == 3

\* Field(min_length=1, max_length=100) of TodoCreate.title,
\* Field(max_length=100) of TodoCreate.description
MIN_TITLE_LENGTH == 1
MAX_LENGTH == 100

HTTP_200_OK == 200
HTTP_201_CREATED == 201
HTTP_204_NO_CONTENT == 204
HTTP_404_NOT_FOUND == 404
\* the framework's answer to a request body that fails TodoCreate
HTTP_422_UNPROCESSABLE == 422
\* the framework's answer to an exception that is no HTTPException
HTTP_500_INTERNAL_ERROR == 500

Threads == {1, 2}

----------------------------------------------------------------------------
(* Values.                                                                 *)

\* str | None: None is the empty sequence, a string s is <<s>>
None == <<>>
Some(s) == <<s>>

RECURSIVE Rep(_, _)
Rep(s, n) == IF n = 0 THEN "" ELSE s \o Rep(s, n - 1)

\* class Todo(BaseModel)
Todo(id, title, description, completed) ==
    [id |-> id, title |-> title, description |-> description,
     completed |-> completed]

TodoFields == {"id", "title", "description", "completed"}

IsTodo(v) == DOMAIN v = TodoFields

\* the set literal { Todo(...) } of create_todo
SetOf(todo) == [set |-> {todo}]

\* class Todo declares no frozen configuration, so pydantic leaves
\* Todo.__hash__ unset: hash(Todo(...)) raises TypeError
TodoHashable == FALSE

\* class TodoCreate(BaseModel): the validation the framework runs on the body
TodoCreateValid(todo_data) ==
    /\ Len(todo_data.title) >= MIN_TITLE_LENGTH
    /\ Len(todo_data.title) <= MAX_LENGTH
    /\ \/ todo_data.description = None
       \/ Len(todo_data.description[1]) <= MAX_LENGTH

\* the dictionary at import time
SeededDb ==
    (1 :> Todo(1, "Buy groceries",
               Some("Milk, Cheese, Pizza, Fruit, Tylenol"), FALSE))
    @@ (2 :> Todo(2, "Learn Python",
               Some("Need to find a good Python tutorial on the web"), FALSE))

\* request inputs: titles of length 0, 8, 100 and 101; descriptions absent,
\* short and of length 101
TitleInputs == {"", "Buy milk", Rep("a", MAX_LENGTH), Rep("a", MAX_LENGTH + 1)}
DescriptionInputs == {None, Some("2 litres"), Some(Rep("d", MAX_LENGTH + 1))}
TodoCreateInputs ==
    [title : TitleInputs, description : DescriptionInputs]
TodoIdInputs == 0..MaxTodoId

----------------------------------------------------------------------------
(* Dictionary helpers.                                                     *)

Max(S) == CHOOSE m \in S : \A k \in S : k <= m

\* del d[k]
Del(db, k) == [j \in DOMAIN db \ {k} |-> db[j]]

\* d[k] = v
Put(db, k, v) == [j \in DOMAIN db \cup {k} |-> IF j = k THEN v ELSE db[j]]

Response(status, body, db) == [status |-> status, body |-> body, db |-> db]

NotFound(db) ==
    Response(HTTP_404_NOT_FOUND, <<[detail |-> "not found"]>>, db)

----------------------------------------------------------------------------
(* The route handlers.                                                     *)

NewId_len(db) == Cardinality(DOMAIN db) + 1

NewId_noinc(db) == Max(IF DOMAIN db # {} THEN DOMAIN db ELSE {0})

\* new_id = max(fake_todos_db.keys() or [0]) + 1
NewId(db) == Max(IF DOMAIN db # {} THEN DOMAIN db ELSE {0}) + 1

\* create_todo from the set literal on: building { Todo(...) } hashes the
\* model and raises TypeError before the dictionary is written; were Todo
\* hashable, the set would be stored and returned, and the response model
\* Todo would reject it
CreateFinish(db, todo_data, id) ==
    IF ~TodoHashable
    THEN Response(HTTP_500_INTERNAL_ERROR, <<>>, db)
    ELSE Response(HTTP_500_INTERNAL_ERROR, <<>>,
             Put(db, id, SetOf(Todo(id, todo_data.title,
                                    todo_data.description, FALSE))))

create_todo(db, todo_data) == CreateFinish(db, todo_data, NewId(db))

get_todo(db, todo_id) ==
    IF todo_id \notin DOMAIN db
    THEN NotFound(db)
    ELSE IF IsTodo(db[todo_id])
         THEN Response(HTTP_200_OK, <<db[todo_id]>>, db)
         ELSE Response(HTTP_500_INTERNAL_ERROR, <<>>, db)

update_todo_upsert(db, todo_data, todo_id) ==
    LET todo == Todo(todo_id, todo_data.title, todo_data.description, FALSE)
    IN  Response(HTTP_200_OK, <<todo>>, Put(db, todo_id, todo))

update_todo_title_only(db, todo_data, todo_id) ==
    IF todo_id \notin DOMAIN db
    THEN NotFound(db)
    ELSE LET todo == [db[todo_id] EXCEPT !.title = todo_data.title]
         IN  Response(HTTP_200_OK, <<todo>>, Put(db, todo_id, todo))

update_todo_completes(db, todo_data, todo_id) ==
    IF todo_id \notin DOMAIN db
    THEN NotFound(db)
    ELSE LET todo == Todo(todo_id, todo_data.title, todo_data.description,
                          TRUE)
         IN  Response(HTTP_200_OK, <<todo>>, Put(db, todo_id, todo))

update_todo_rekey(db, todo_data, todo_id) ==
    IF todo_id \notin DOMAIN db
    THEN NotFound(db)
    ELSE LET todo == Todo(NewId(db), todo_data.title, todo_data.description,
                          db[todo_id].completed)
         IN  Response(HTTP_200_OK, <<todo>>, Put(db, todo_id, todo))

update_todo(db, todo_data, todo_id) ==
    IF todo_id \notin DOMAIN db
    THEN NotFound(db)
    ELSE IF ~IsTodo(db[todo_id])
         THEN Response(HTTP_500_INTERNAL_ERROR, <<>>, db)
         ELSE LET todo == [db[todo_id] EXCEPT
                              !.title = todo_data.title,
                              !.description = todo_data.description]
              IN  Response(HTTP_200_OK, <<todo>>, Put(db, todo_id, todo))

delete_todo_noop(db, todo_id) ==
    IF todo_id \notin DOMAIN db
    THEN NotFound(db)
    ELSE Response(HTTP_204_NO_CONTENT, <<>>, db)

delete_todo(db, todo_id) ==
    IF todo_id \notin DOMAIN db
    THEN NotFound(db)
    ELSE Response(HTTP_204_NO_CONTENT, <<>>, Del(db, todo_id))

list_todo(db) == Response(HTTP_200_OK, <<db>>, db)

read_root(db) == Response(HTTP_200_OK, <<[message |-> "welcome"]>>, db)

\* the framework's rejection of a body that fails TodoCreate
Unprocessable(db) ==
    Response(HTTP_422_UNPROCESSABLE, <<[detail |-> "validation"]>>, db)

----------------------------------------------------------------------------
(* Sequential requests: one action per route.                              *)

Init ==
    /\ fake_todos_db = SeededDb
    /\ before = SeededDb
    /\ ever = DOMAIN SeededDb
    /\ everBefore = DOMAIN SeededDb
    /\ deleted = {}
    /\ last = [op |-> "start"]
    /\ returned = <<>>
    /\ requested = <<>>
    /\ pc = [t \in Threads |-> "idle"]
    /\ req = [t \in Threads |-> [title |-> "", description |-> None]]
    /\ new_id = [t \in Threads |-> 0]
    /\ resp = [t \in Threads |-> [status |-> 0, body |-> <<>>]]

Succeeded(out) == out.status \in {HTTP_200_OK, HTTP_201_CREATED}

\* the id a create or an update is about
Target(call) == IF call.op = "create" THEN call.new_id ELSE call.todo_id

Returned(call, out) ==
    LET kept == [j \in DOMAIN returned \cap DOMAIN out.db |-> returned[j]]
    IN  IF call.op \in {"create", "update"} /\ Succeeded(out)
        THEN Put(kept, Target(call), out.body[1])
        ELSE kept

Requested(call, out) ==
    IF call.op = "create"
    THEN IF out.status = HTTP_422_UNPROCESSABLE
         THEN requested
         ELSE call.new_id :> Todo(call.new_id, call.todo_data.title,
                                  call.todo_data.description, FALSE)
    ELSE IF call.op \in {"update", "delete"}
         THEN Del(requested, call.todo_id)
         ELSE requested

\* what a call leaves: the dictionary of the handler's outcome, and the history
Record(call, out) ==
    /\ fake_todos_db' = out.db
    /\ before' = fake_todos_db
    /\ ever' = ever \cup DOMAIN out.db
    /\ everBefore' = ever
    /\ deleted' = (deleted \cup (DOMAIN fake_todos_db \ DOMAIN out.db))
                      \ (DOMAIN out.db \ DOMAIN fake_todos_db)
    /\ last' = call @@ [status |-> out.status, body |-> out.body]
    /\ returned' = Returned(call, out)
    /\ requested' = Requested(call, out)

\* POST /todos; new_id is kept within MaxTodoId so that the ids stay bounded
CreateTodo ==
    \E todo_data \in TodoCreateInputs :
        /\ TodoCreateValid(todo_data) => NewId(fake_todos_db) <= MaxTodoId
        /\ Record(
               [op |-> "create", todo_data |-> todo_data,
                new_id |-> IF TodoCreateValid(todo_data)
                           THEN NewId(fake_todos_db) ELSE 0],
               IF TodoCreateValid(todo_data)
               THEN create_todo(fake_todos_db, todo_data)
               ELSE Unprocessable(fake_todos_db))
        /\ UNCHANGED concVars

GetTodo ==
    \E todo_id \in TodoIdInputs :
        /\ Record([op |-> "get", todo_id |-> todo_id],
                            get_todo(fake_todos_db, todo_id))
        /\ UNCHANGED concVars

UpdateTodo ==
    \E todo_id \in TodoIdInputs, todo_data \in TodoCreateInputs :
        /\ Record(
               [op |-> "update", todo_id |-> todo_id, todo_data |-> todo_data],
               IF TodoCreateValid(todo_data)
               THEN update_todo(fake_todos_db, todo_data, todo_id)
               ELSE Unprocessable(fake_todos_db))
        /\ UNCHANGED concVars

DeleteTodo ==
    \E todo_id \in TodoIdInputs :
        /\ Record([op |-> "delete", todo_id |-> todo_id],
                            delete_todo(fake_todos_db, todo_id))
        /\ UNCHANGED concVars

ListTodo ==
    /\ Record([op |-> "list"], list_todo(fake_todos_db))
    /\ UNCHANGED concVars

ReadRoot ==
    /\ Record([op |-> "root"], read_root(fake_todos_db))
    /\ UNCHANGED concVars

Next ==
    \/ CreateTodo
    \/ GetTodo
    \/ UpdateTodo
    \/ DeleteTodo
    \/ ListTodo
    \/ ReadRoot

Spec == Init /\ [][Next]_vars

----------------------------------------------------------------------------
(* Concurrent creates.  A def route runs on a worker thread of the         *)
(* framework's pool, and nothing guards fake_todos_db: another thread can  *)
(* run between the read of the keys and the rest of create_todo.           *)

\* the request is validated and create_todo computes new_id
ThreadCreateRead(t) ==
    /\ pc[t] = "idle"
    /\ \E todo_data \in TodoCreateInputs :
           /\ req' = [req EXCEPT ![t] = todo_data]
           /\ IF TodoCreateValid(todo_data)
              THEN /\ NewId(fake_todos_db) <= MaxTodoId
                   /\ new_id' = [new_id EXCEPT ![t] = NewId(fake_todos_db)]
                   /\ pc' = [pc EXCEPT ![t] = "computed"]
                   /\ resp' = resp
              ELSE /\ new_id' = new_id
                   /\ pc' = [pc EXCEPT ![t] = "done"]
                   /\ resp' = [resp EXCEPT ![t] =
                                  [status |-> HTTP_422_UNPROCESSABLE,
                                   body |-> <<[detail |-> "validation"]>>]]
    /\ UNCHANGED seqVars

\* create_todo from the set literal to its return
ThreadCreateWrite(t) ==
    /\ pc[t] = "computed"
    /\ LET out == CreateFinish(fake_todos_db, req[t], new_id[t])
       IN  /\ fake_todos_db' = out.db
           /\ resp' = [resp EXCEPT ![t] =
                          [status |-> out.status, body |-> out.body]]
    /\ pc' = [pc EXCEPT ![t] = "done"]
    /\ UNCHANGED <<before, ever, everBefore, deleted, last, returned,
                   requested, req, new_id>>

NextConc == \E t \in Threads : ThreadCreateRead(t) \/ ThreadCreateWrite(t)

SpecConc == Init /\ [][NextConc]_vars

----------------------------------------------------------------------------
(* Properties.                                                             *)

\* the call reached its handler: the framework accepted the request
Handled == last.op \in {"get", "delete"}
               \/ (last.op \in {"create", "update"}
                      /\ TodoCreateValid(last.todo_data))

MaxKey(db) == IF DOMAIN db = {} THEN 0
              ELSE CHOOSE m \in DOMAIN db : \A k \in DOMAIN db : k <= m

Without(db, id) == [k \in DOMAIN db \ {id} |-> db[k]]

\* C1: every create on a valid input answers 201 with the record
\* R = {id: max(keys, default 0) + 1, title, description, completed: false},
\* and the store afterwards is the store before plus R.id -> R
C1_CreateContract ==
    (last.op = "create" /\ Handled) =>
        LET R == Todo(MaxKey(before) + 1, last.todo_data.title,
                      last.todo_data.description, FALSE)
        IN  /\ last.status = HTTP_201_CREATED
            /\ last.body = <<R>>
            /\ DOMAIN fake_todos_db = DOMAIN before \cup {R.id}
            /\ \A k \in DOMAIN fake_todos_db :
                   fake_todos_db[k] = IF k = R.id THEN R ELSE before[k]

\* C2: get, update and delete of an id that is no key of the store answer
\* 404 and leave the store as it was
C2_NotFoundLeavesStore ==
    (last.op \in {"get", "update", "delete"} /\ Handled
         /\ last.todo_id \notin DOMAIN before) =>
        /\ last.status = HTTP_404_NOT_FOUND
        /\ fake_todos_db = before

C2_Witness ==
    /\ last.op = "update"
    /\ Handled
    /\ last.todo_id \in deleted
    /\ last.status = HTTP_404_NOT_FOUND

\* C3: update of an id that is a key answers 200 with the record now stored
\* at id; that record has the given title and description and its old id and
\* completed; the keys and every other record are unchanged
C3_UpdateFrame ==
    (last.op = "update" /\ Handled /\ last.todo_id \in DOMAIN before) =>
        /\ last.status = HTTP_200_OK
        /\ DOMAIN fake_todos_db = DOMAIN before
        /\ last.body = <<fake_todos_db[last.todo_id]>>
        /\ fake_todos_db[last.todo_id] =
               Todo(before[last.todo_id].id, last.todo_data.title,
                    last.todo_data.description,
                    before[last.todo_id].completed)
        /\ \A k \in DOMAIN before \ {last.todo_id} :
               fake_todos_db[k] = before[k]

C3_Witness ==
    /\ last.op = "update"
    /\ last.status = HTTP_200_OK
    /\ Cardinality(DOMAIN before) = 2
    /\ fake_todos_db[last.todo_id].title # before[last.todo_id].title
    /\ fake_todos_db[last.todo_id].description
           # before[last.todo_id].description

\* C4: delete of an id that is a key answers 204 with no body and removes
\* exactly that entry; get of an id that was deleted and not assigned again
\* answers 404; and only a create that assigns the id brings a key back
C4_DeleteThenNotFound ==
    /\ (last.op = "delete" /\ last.todo_id \in DOMAIN before) =>
           /\ last.status = HTTP_204_NO_CONTENT
           /\ last.body = <<>>
           /\ fake_todos_db = Without(before, last.todo_id)
    /\ (last.op = "get" /\ last.todo_id \in deleted) =>
           /\ last.status = HTTP_404_NOT_FOUND
           /\ last.todo_id \notin DOMAIN fake_todos_db
    /\ \A k \in DOMAIN fake_todos_db \ DOMAIN before :
           last.op = "create" /\ last.new_id = k

C4_Witness ==
    /\ last.op = "get"
    /\ last.todo_id \in deleted
    /\ last.status = HTTP_404_NOT_FOUND
    /\ DOMAIN requested # {}

\* C5: every entry k -> v of the store is a Todo record whose id is k
C5_IdIsKey ==
    \A k \in DOMAIN fake_todos_db :
        /\ DOMAIN fake_todos_db[k] = TodoFields
        /\ fake_todos_db[k].completed \in BOOLEAN
        /\ fake_todos_db[k].id = k

C5_Witness ==
    /\ last.op = "update"
    /\ last.status = HTTP_200_OK
    /\ DOMAIN requested # {}
    /\ fake_todos_db[last.todo_id] # SeededDb[last.todo_id]

\* C6 as stated: the id a create computes is greater than every id that is or
\* ever was a key of the store before the create
C6_NeverReused ==
    (last.op = "create" /\ Handled) =>
        \A k \in everBefore : last.new_id > k

\* C6 as amended: the id a create computes is max(current keys, default 0)
\* + 1, so greater than every id that is a key of the store at the create
C6_AboveCurrentKeys ==
    (last.op = "create" /\ Handled) =>
        /\ last.new_id = MaxKey(before) + 1
        /\ \A k \in DOMAIN before : last.new_id > k

C6_Witness ==
    /\ last.op = "create"
    /\ Handled
    /\ last.new_id \in everBefore \ DOMAIN before

\* C7 as stated: a create on the seeded store computes id 3, and so does a
\* create on the seeded store after delete(2)
C7_ThreeAfterDelete ==
    (last.op = "create" /\ Handled
         /\ before \in {SeededDb, Without(SeededDb, 2)}) =>
        last.new_id = 3

\* C7 as amended: a create on the seeded store computes id 3; a create on
\* the seeded store after delete(2) computes id 2
C7_TwoAfterDelete ==
    (last.op = "create" /\ Handled) =>
        /\ before = SeededDb => last.new_id = 3
        /\ before = Without(SeededDb, 2) => last.new_id = 2

C7_Witness ==
    /\ last.op = "create"
    /\ Handled
    /\ before = Without(SeededDb, 2)
    /\ deleted = {2}
    /\ last.new_id = 2

C8_UpdateRoundTrip ==
    (last.op = "get" /\ last.todo_id \in DOMAIN returned) =>
        /\ last.status = HTTP_200_OK
        /\ last.body = <<returned[last.todo_id]>>

\* C9: two concurrent creates that computed the same new_id both answer 201
\* and leave the store one entry larger, the later write having replaced the
\* earlier record
C9_LostCreate ==
    (/\ \A t \in Threads : pc[t] = "done" /\ TodoCreateValid(req[t])
     /\ new_id[1] = new_id[2]) =>
        /\ \A t \in Threads : resp[t].status = HTTP_201_CREATED
        /\ DOMAIN fake_todos_db = DOMAIN SeededDb \cup {new_id[1]}
        /\ Cardinality(DOMAIN fake_todos_db)
               = Cardinality(DOMAIN SeededDb) + 1

\* C10: every record of the store has completed = false
C10_NeverCompleted ==
    \A k \in DOMAIN fake_todos_db :
        IsTodo(fake_todos_db[k]) => fake_todos_db[k].completed = FALSE

C10_Witness ==
    /\ DOMAIN fake_todos_db = DOMAIN SeededDb
    /\ \A k \in DOMAIN fake_todos_db :
           /\ fake_todos_db[k] # SeededDb[k]
           /\ fake_todos_db[k].completed = FALSE

====
